---- MODULE Spec2Model ----
(***************************************************************************)
(* Model of the Kaboom multiplayer server (src/server.py): the registry    *)
(* of rooms (active_games), the GameState / Deck objects, and the five     *)
(* Socket.IO handlers join_game, draw_card, replace_card,                  *)
(* discard_drawn_card and disconnect.                                      *)
(*                                                                         *)
(* Identities are integers: a connection (the transport's request.sid) is  *)
(* a number in 1..NumConns; the string 'game-<n>' of line 206 is the       *)
(* number n in RandLo..RandHi.  A card is a number in 1..NumCards; a       *)
(* card's mutable is_face_up attribute is the membership of its number in  *)
(* the face_up set of the room whose Deck created it.  A Python dict is a  *)
(* sequence of entries in insertion order.                                 *)
(***************************************************************************)
EXTENDS Integers, Sequences, FiniteSets, TLC

\* ---------------------------------------------------------------- bounds
MaxEvents == 3          \* number of inbound events in one behaviour
NumConns  == 2          \* number of client connections

\* ------------------------------------------------------ program constants
NumRanks    == 13       \* len(Deck.RANKS)
NumSuits    == 4        \* len(Deck.SUITS)
NumJokers   == 2        \* the two Card('Joker') appended by _create_deck
NumCards    == NumRanks * NumSuits + NumJokers
HandSize    == 4        \* range(4) in start_game, 0 <= hand_pos < 4
LookCount   == 2        \* i < 2 in start_game
max_players == 2        \* GameState.max_players
RandLo      == 100      \* random.randint(100, 999)
RandHi      == 999
None        == 0 - 1000 \* Python's None where an integer is expected
NoCard      == 0        \* drawn_card = None / draw_card() returning None

Conns     == 1 .. NumConns
Names     == {"Alice", "Bob", "None"}      \* data.get('name'); "None": key absent
Positions == {0 - 1, 0, 3, 4, 5, None}     \* data.get('position')

\* `request` is used by four handlers but is not among the names imported
\* from flask / flask_socketio: evaluating request.sid raises NameError.
request_defined == FALSE

VARIABLES
    active_games,   \* the registry: sequence of GameState records (dict order)
    sio_rooms,      \* Socket.IO room membership: set of <<room name, connection>>
    emitted,        \* what the last handler emitted: sequence of [event, to]
    raised,         \* the exception that ended the last handler, or "none"
    history         \* the inbound events handled so far

vars == <<active_games, sio_rooms, emitted, raised, history>>

Req(ev, c, nm, pos) == [event |-> ev, conn |-> c, name |-> nm, position |-> pos]

\* ------------------------------------------------------------- utilities
Range(s) == {s[i] : i \in DOMAIN s}

Front(s) == SubSeq(s, 1, Len(s) - 1)

Last(s) == s[Len(s)]

Reverse(s) == [i \in 1 .. Len(s) |-> s[Len(s) + 1 - i]]

Rotate(s, k) == [i \in 1 .. Len(s) |-> s[((i + k - 1) % Len(s)) + 1]]

\* The least index of the set S of indices, or 0 when there is none: the
\* first hit of a scan in dict order.
FirstIndex(S) == IF S = {} THEN 0 ELSE CHOOSE i \in S : \A j \in S : i <= j

\* random.shuffle(s): an arbitrary reordering of s.  The orders enumerated
\* are the rotations of s and of its reverse, which are all the orders of a
\* sequence of up to three entries and a sample of those of a longer one.
Shuffles(s) ==
    IF s = <<>> THEN {s}
    ELSE {Rotate(s, k) : k \in 0 .. Len(s) - 1}
         \cup {Rotate(Reverse(s), k) : k \in 0 .. Len(s) - 1}

\* ------------------------------------------------------------ Card, Deck
\* Card n is rank ((n-1) % 13) of suit ((n-1) \div 13) for n <= 52, a Joker
\* above; _create_deck appends them suit by suit, the Jokers last.
AllCards == 1 .. NumCards

Card_rank(n) == IF n > NumRanks * NumSuits THEN "Joker" ELSE
    <<"A", "2", "3", "4", "5", "6", "7", "8", "9", "10", "J", "Q", "K">>[((n - 1) % NumRanks) + 1]

Card_suit(n) == IF n > NumRanks * NumSuits THEN "None" ELSE
    <<"Hearts", "Diamonds", "Clubs", "Spades">>[((n - 1) \div NumRanks) + 1]

Deck_create_deck == [n \in 1 .. NumCards |-> n]

\* Deck(): the possible new decks.
Deck_init == {[cards |-> s, discard_pile |-> <<>>] : s \in Shuffles(Deck_create_deck)}

\* Deck.draw_card: the possible outcomes [deck, card]; card = NoCard when
\* both piles are empty.
Deck_draw_card(deck) ==
    IF deck.cards = <<>>
      THEN IF deck.discard_pile = <<>>
             THEN {[deck |-> deck, card |-> NoCard]}
             ELSE {[deck |-> [cards |-> Front(s), discard_pile |-> <<>>],
                    card |-> Last(s)] : s \in Shuffles(deck.discard_pile)}
      ELSE {[deck |-> [deck EXCEPT !.cards = Front(@)], card |-> Last(deck.cards)]}

\* -------------------------------------------------------------- GameState
GameState_init(room_id, deck) ==
    [room_id |-> room_id,
     players |-> <<>>,              \* entries [sid, name, hand] in dict order
     deck |-> deck,
     face_up |-> {},                \* the cards whose is_face_up is True
     drawn_card |-> NoCard,
     turn_order |-> <<>>,
     current_turn_index |-> 0,
     status |-> "WAITING"]

PlayerSids(game) == {game.players[i].sid : i \in DOMAIN game.players}

PlayerIndex(game, sid) == FirstIndex({i \in DOMAIN game.players : game.players[i].sid = sid})

is_full(game) == Len(game.players) >= max_players

\* turn_order[current_turn_index] raises IndexError when the index is past
\* the end of a non-empty turn order.
get_player_sid_raises(game) ==
    /\ game.turn_order # <<>>
    /\ game.current_turn_index >= Len(game.turn_order)

get_player_sid(game) ==
    IF game.turn_order = <<>> THEN None
    ELSE game.turn_order[game.current_turn_index + 1]

advance_turn(game) ==
    [game EXCEPT !.current_turn_index = (@ + 1) % Len(game.turn_order)]

\* One pass of the inner loop of start_game: deal step k (0-based) gives
\* card number i = k % 4 to player k \div 4, taking outcome o of draw_card.
DealOne(game, k, o) ==
    LET p == (k \div HandSize) + 1
        i == k % HandSize
    IN  IF o.card = NoCard
          THEN [game EXCEPT !.deck = o.deck]
          ELSE [game EXCEPT !.deck = o.deck,
                            !.face_up = IF i < LookCount THEN @ \cup {o.card} ELSE @,
                            !.players[p].hand = Append(@, o.card)]

RECURSIVE Deal(_, _)
Deal(game, k) ==
    IF k >= HandSize * Len(game.players) THEN {game}
    ELSE UNION {Deal(DealOne(game, k, o), k + 1) : o \in Deck_draw_card(game.deck)}

\* GameState.start_game: the possible games after it.
start_game(game) ==
    LET g1 == [game EXCEPT !.status = "PLAYING",
                           !.turn_order = [i \in DOMAIN game.players |-> game.players[i].sid]]
    IN  {[g2 EXCEPT !.turn_order = t, !.current_turn_index = 0] :
            g2 \in Deal(g1, 0), t \in Shuffles(g1.turn_order)}

\* Card.get_display_name: 'Joker', or the rank followed by the suit's
\* first letter.
get_display_name(n) ==
    IF Card_rank(n) = "Joker" THEN "Joker"
    ELSE Card_rank(n) \o <<"H", "D", "C", "S">>[((n - 1) \div NumRanks) + 1]

\* Card.to_dict of card n of room game.
to_dict(game, n) ==
    [rank |-> Card_rank(n), suit |-> Card_suit(n),
     is_face_up |-> n \in game.face_up, display_name |-> get_display_name(n)]

\* The faulty masking the checks must tell from the code's: the rank and
\* the display name are hidden, the suit is left in place.
card_view_suit_leak(game, player_sid, sid, n) ==
    IF player_sid # sid /\ n \notin game.face_up
      THEN [to_dict(game, n) EXCEPT !.display_name = "??", !.rank = "HIDDEN"]
      ELSE to_dict(game, n)

\* Lines 125-134: the entry of hand_data for card n of player player_sid in
\* the state prepared for viewer sid.
card_view(game, player_sid, sid, n) ==
    IF player_sid # sid /\ n \notin game.face_up
      THEN [to_dict(game, n) EXCEPT !.display_name = "??", !.rank = "HIDDEN",
                                    !.suit = "HIDDEN"]
      ELSE to_dict(game, n)

\* The value of the 'drawn_card' key when no card is outstanding.
NoneDict == [rank |-> "None", suit |-> "None", is_face_up |-> FALSE, display_name |-> "None"]

\* GameState.get_state_for_client(sid), where get_player_sid() does not
\* raise.
get_state_for_client(game, sid) ==
    LET turn_sid == get_player_sid(game)
    IN  [room_id |-> game.room_id,
         status |-> game.status,
         players |-> [p \in DOMAIN game.players |->
                        [sid |-> game.players[p].sid,
                         name |-> game.players[p].name,
                         hand |-> [k \in DOMAIN game.players[p].hand |->
                                     card_view(game, game.players[p].sid, sid,
                                               game.players[p].hand[k])],
                         is_current_player |-> game.players[p].sid = turn_sid]],
         deck_count |-> Len(game.deck.cards),
         discard_count |-> Len(game.deck.discard_pile),
         drawn_card |-> IF game.drawn_card # NoCard THEN to_dict(game, game.drawn_card)
                        ELSE NoneDict,
         current_turn_sid |-> turn_sid]

\* ------------------------------------------------------ utility functions
Emit(ev, to, viewer) == [event |-> ev, to |-> to, viewer |-> viewer]

\* What a handler leaves behind: the registry, the Socket.IO rooms, the
\* events it emitted and the exception that ended it ("none": it returned).
Outcome(ag, sio, em, exc) == [games |-> ag, sio |-> sio, emitted |-> em, raised |-> exc]

RoomIds(ag) == {ag[i].room_id : i \in DOMAIN ag}

\* active_games.get(room_id): the index of the room, or 0.
RoomIndex(ag, room_id) == FirstIndex({i \in DOMAIN ag : ag[i].room_id = room_id})

\* get_game_and_player(sid): the index of the first room that has sid in
\* its players, or 0 for (None, None).
get_game_and_player(ag, sid) == FirstIndex({i \in DOMAIN ag : sid \in PlayerSids(ag[i])})

\* broadcast_game_state: one game_state_update per entry of turn_order, the
\* state computed for that entry as viewer and sent to the room named by it.
\* get_state_for_client starts by get_player_sid(), which can raise.
broadcast_game_state(ag, room_id) ==
    LET gi == RoomIndex(ag, room_id)
    IN  IF gi = 0 THEN [emitted |-> <<>>, raised |-> "none"]
        ELSE IF get_player_sid_raises(ag[gi])
          THEN [emitted |-> <<>>, raised |-> "IndexError"]
          ELSE [emitted |-> [i \in DOMAIN ag[gi].turn_order |->
                               Emit("game_state_update", ag[gi].turn_order[i],
                                    ag[gi].turn_order[i])],
                raised |-> "none"]

\* The handler's tail: store game g at index gi, emit em, then broadcast.
Finish(ag, gi, g, sio, em) ==
    LET ag2 == [ag EXCEPT ![gi] = g]
        b   == broadcast_game_state(ag2, g.room_id)
    IN  Outcome(ag2, sio, em \o b.emitted, b.raised)

GuestName(k) ==
    IF k = 1 THEN "Guest-1" ELSE IF k = 2 THEN "Guest-2" ELSE
    IF k = 3 THEN "Guest-3" ELSE "Guest-n"

\* --------------------------------------------------------------- handlers
\* Line 206: the player key.  With an empty registry the conditional
\* evaluates random.choice([]), which raises IndexError; otherwise the key
\* is 'game-<n>' for a random n.  The set of possible keys; {} = it raises.
join_sid(ag) == IF ag = <<>> THEN {} ELSE RandLo .. RandHi

\* Lines 209-234, for player key sid and the registry ag1 that already
\* holds the room room_id.
join_room_as(ag1, sio, c, name, sid, room_id) ==
    LET gi   == RoomIndex(ag1, room_id)
        game == ag1[gi]
    IN  IF is_full(game) /\ game.status # "PLAYING"
          THEN {Outcome(ag1, sio, <<Emit("error", c, None)>>, "none")}
          ELSE
            LET player_name == IF name = "None" THEN GuestName(Len(game.players) + 1)
                               ELSE name
                rec  == [sid |-> sid, name |-> player_name, hand |-> <<>>]
                pi   == PlayerIndex(game, sid)
                g1   == IF pi = 0 THEN [game EXCEPT !.players = Append(@, rec)]
                        ELSE [game EXCEPT !.players[pi] = rec]
                sio1 == sio \cup {<<sid, c>>, <<room_id, c>>}
            IN  IF is_full(g1)
                  THEN {Finish(ag1, gi, g2, sio1, <<Emit("game_message", room_id, None)>>) :
                           g2 \in start_game(g1)}
                  ELSE {Finish(ag1, gi, g1, sio1, <<>>)}

handle_join_game(ag, sio, c, name) ==
    IF join_sid(ag) = {}
      THEN {Outcome(ag, sio, <<>>, "IndexError")}
      ELSE UNION {
        LET ni      == FirstIndex({i \in DOMAIN ag : ~is_full(ag[i])})
            room_id == IF ni # 0 THEN ag[ni].room_id ELSE sid
        IN  IF room_id \notin RoomIds(ag)
              THEN UNION {join_room_as(Append(ag, GameState_init(room_id, d)),
                                       sio, c, name, sid, room_id) : d \in Deck_init}
              ELSE join_room_as(ag, sio, c, name, sid, room_id)
        : sid \in join_sid(ag)}

\* The common guard of draw_card, replace_card and discard_drawn_card, for
\* caller c: "raise", "reject" or "ok".
turn_guard(ag, c) ==
    LET gi == get_game_and_player(ag, c)
    IN  IF gi = 0 THEN "reject"
        ELSE IF ag[gi].status # "PLAYING" THEN "reject"
        ELSE IF get_player_sid_raises(ag[gi]) THEN "raise"
        ELSE IF get_player_sid(ag[gi]) # c THEN "reject"
        ELSE "ok"

handle_draw_card(ag, sio, c) ==
    IF ~request_defined THEN {Outcome(ag, sio, <<>>, "NameError")}
    ELSE IF turn_guard(ag, c) = "raise" THEN {Outcome(ag, sio, <<>>, "IndexError")}
    ELSE IF turn_guard(ag, c) = "reject"
      THEN {Outcome(ag, sio, <<Emit("error", c, None)>>, "none")}
    ELSE
      LET gi   == get_game_and_player(ag, c)
          game == ag[gi]
      IN  IF game.drawn_card # NoCard
            THEN {Outcome(ag, sio, <<Emit("error", c, None)>>, "none")}
            ELSE {IF o.card = NoCard
                    THEN Outcome([ag EXCEPT ![gi].deck = o.deck], sio,
                                 <<Emit("game_message", game.room_id, None)>>, "none")
                    ELSE Finish(ag, gi,
                                [game EXCEPT !.deck = o.deck,
                                             !.face_up = @ \cup {o.card},
                                             !.drawn_card = o.card],
                                sio, <<Emit("game_message", game.room_id, None)>>)
                  : o \in Deck_draw_card(game.deck)}

handle_replace_card(ag, sio, c, hand_pos) ==
    IF ~request_defined THEN {Outcome(ag, sio, <<>>, "NameError")}
    ELSE IF turn_guard(ag, c) = "raise" THEN {Outcome(ag, sio, <<>>, "IndexError")}
    ELSE IF turn_guard(ag, c) = "reject"
      THEN {Outcome(ag, sio, <<Emit("error", c, None)>>, "none")}
    ELSE
      LET gi   == get_game_and_player(ag, c)
          game == ag[gi]
          pi   == PlayerIndex(game, c)
          hand == game.players[pi].hand
      IN  IF game.drawn_card = NoCard
            THEN {Outcome(ag, sio, <<Emit("error", c, None)>>, "none")}
          ELSE IF hand_pos = None \/ ~(0 <= hand_pos /\ hand_pos < HandSize)
            THEN {Outcome(ag, sio, <<Emit("error", c, None)>>, "none")}
          ELSE IF hand_pos >= Len(hand)
            THEN {Outcome(ag, sio, <<>>, "IndexError")}
          ELSE
            LET old_card == hand[hand_pos + 1]
                g1 == [game EXCEPT !.players[pi].hand[hand_pos + 1] = game.drawn_card,
                                   !.face_up = @ \cup {game.drawn_card},
                                   !.deck.discard_pile = Append(@, old_card),
                                   !.drawn_card = NoCard]
            IN  {Finish(ag, gi, advance_turn(g1), sio,
                        <<Emit("game_message", game.room_id, None)>>)}

handle_discard(ag, sio, c) ==
    IF ~request_defined THEN {Outcome(ag, sio, <<>>, "NameError")}
    ELSE IF turn_guard(ag, c) = "raise" THEN {Outcome(ag, sio, <<>>, "IndexError")}
    ELSE IF turn_guard(ag, c) = "reject"
      THEN {Outcome(ag, sio, <<Emit("error", c, None)>>, "none")}
    ELSE
      LET gi   == get_game_and_player(ag, c)
          game == ag[gi]
      IN  IF game.drawn_card = NoCard
            THEN {Outcome(ag, sio, <<Emit("error", c, None)>>, "none")}
            ELSE
              LET g1 == [game EXCEPT !.deck.discard_pile = Append(@, game.drawn_card),
                                     !.drawn_card = NoCard]
              IN  {Finish(ag, gi, advance_turn(g1), sio,
                          <<Emit("game_message", game.room_id, None)>>)}

\* Socket.IO takes a closed connection out of every room it had joined; the
\* next client to use the identity starts in its own private room only.
LeaveAll(sio, c) == {m \in sio : m[2] # c} \cup {<<c, c>>}

handle_disconnect(ag, sio, c) ==
    IF ~request_defined THEN {Outcome(ag, LeaveAll(sio, c), <<>>, "NameError")}
    ELSE
      LET gi == get_game_and_player(ag, c)
      IN  IF gi = 0 THEN {Outcome(ag, LeaveAll(sio, c), <<>>, "none")}
          ELSE
            LET game == ag[gi]
                g1 == [game EXCEPT
                         !.players = SelectSeq(@, LAMBDA p : p.sid # c),
                         !.turn_order = SelectSeq(@, LAMBDA t : t # c),
                         !.status = "WAITING"]
                em == <<Emit("game_message", game.room_id, None)>>
            IN  IF g1.players = <<>>
                  THEN {Outcome(SelectSeq(ag, LAMBDA g : g.room_id # game.room_id),
                                LeaveAll(sio, c), em, "none")}
                  ELSE LET o == Finish(ag, gi, g1, LeaveAll(sio, c), em)
                       IN  {o}

\* ---------------------------------------------------------- specification
Init ==
    /\ active_games = <<>>
    /\ sio_rooms = {<<c, c>> : c \in Conns}
    /\ emitted = <<>>
    /\ raised = "none"
    /\ history = <<>>

Apply(o, req) ==
    /\ active_games' = o.games
    /\ sio_rooms' = o.sio
    /\ emitted' = o.emitted
    /\ raised' = o.raised
    /\ history' = Append(history, req)

JoinGame ==
    \E c \in Conns, nm \in Names :
        /\ Len(history) < MaxEvents
        /\ \E o \in handle_join_game(active_games, sio_rooms, c, nm) :
               Apply(o, Req("join_game", c, nm, None))

DrawCard ==
    \E c \in Conns :
        /\ Len(history) < MaxEvents
        /\ \E o \in handle_draw_card(active_games, sio_rooms, c) :
               Apply(o, Req("draw_card", c, "None", None))

ReplaceCard ==
    \E c \in Conns, pos \in Positions :
        /\ Len(history) < MaxEvents
        /\ \E o \in handle_replace_card(active_games, sio_rooms, c, pos) :
               Apply(o, Req("replace_card", c, "None", pos))

DiscardDrawnCard ==
    \E c \in Conns :
        /\ Len(history) < MaxEvents
        /\ \E o \in handle_discard(active_games, sio_rooms, c) :
               Apply(o, Req("discard_drawn_card", c, "None", None))

Disconnect ==
    \E c \in Conns :
        /\ Len(history) < MaxEvents
        /\ \E o \in handle_disconnect(active_games, sio_rooms, c) :
               Apply(o, Req("disconnect", c, "None", None))

Next == JoinGame \/ DrawCard \/ ReplaceCard \/ DiscardDrawnCard \/ Disconnect

Spec == Init /\ [][Next]_vars

\* ------------------------------------- the functions of a room's state
\* get_state_for_client and broadcast_game_state read a room and change
\* nothing.  SpecViews applies them to the room values that GameState's
\* constructor and methods build: an undealt room with one player, a room
\* after start_game, one after a turn or two, and one after a departure,
\* each with any face-up flags on the cards of its hands.
InputDecks ==
    {[cards |-> s, discard_pile |-> <<>>] :
        s \in {Deck_create_deck, Reverse(Deck_create_deck)}}

InputRosters(n) == {r \in [1 .. n -> Conns] : \A i, j \in 1 .. n : i # j => r[i] # r[j]}

WithPlayers(game, roster) ==
    [game EXCEPT !.players = [i \in DOMAIN roster |->
                                [sid |-> roster[i], name |-> GuestName(i), hand |-> <<>>]]]

UndealtRooms ==
    {WithPlayers(GameState_init(RandLo, d), r) : d \in InputDecks, r \in InputRosters(1)}

DealtRooms ==
    UNION {start_game(WithPlayers(GameState_init(RandLo, d), r)) :
              d \in InputDecks, r \in InputRosters(max_players)}

\* The turn has or has not moved on, and a card is or is not drawn.
DrawnOrNot(g) == Deck_draw_card(g.deck) \cup {[deck |-> g.deck, card |-> NoCard]}

PlayedRooms ==
    UNION {{[g EXCEPT !.current_turn_index = i,
                      !.drawn_card = o.card,
                      !.deck = o.deck,
                      !.face_up = IF o.card = NoCard THEN @ ELSE @ \cup {o.card}] :
               i \in 0 .. max_players - 1, o \in DrawnOrNot(g)} :
           g \in DealtRooms}

\* The player at index q has left (lines 320-324).
DepartedRooms ==
    {[g EXCEPT !.players = SelectSeq(@, LAMBDA p : p.sid # g.players[q].sid),
               !.turn_order = SelectSeq(@, LAMBDA t : t # g.players[q].sid),
               !.status = "WAITING"] :
        g \in PlayedRooms, q \in 1 .. max_players}

HandCards(game) ==
    UNION {Range(game.players[p].hand) : p \in DOMAIN game.players}

RoomInputs ==
    UNION {{[g EXCEPT !.face_up = (@ \ HandCards(g)) \cup f] : f \in SUBSET HandCards(g)} :
           g \in UndealtRooms \cup PlayedRooms \cup DepartedRooms}

InitViews ==
    /\ active_games \in {<<g>> : g \in RoomInputs}
    /\ sio_rooms = {<<c, c>> : c \in Conns}
    /\ emitted = <<>>
    /\ raised = "none"
    /\ history = <<>>

\* One call of get_state_for_client for viewer v; the returned state is
\* recorded in emitted.
GetStateForClient ==
    \E v \in Conns :
        /\ history = <<>>
        /\ history' = <<Req("get_state_for_client", v, "None", None)>>
        /\ IF get_player_sid_raises(active_games[1])
             THEN emitted' = <<>> /\ raised' = "IndexError"
             ELSE /\ emitted' = <<[event |-> "state", to |-> v, viewer |-> v,
                                   state |-> get_state_for_client(active_games[1], v)]>>
                  /\ raised' = "none"
        /\ UNCHANGED <<active_games, sio_rooms>>

\* One call of broadcast_game_state for the room.
BroadcastGameState ==
    /\ history = <<>>
    /\ history' = <<Req("broadcast_game_state", None, "None", None)>>
    /\ LET b == broadcast_game_state(active_games, active_games[1].room_id)
       IN  emitted' = b.emitted /\ raised' = b.raised
    /\ UNCHANGED <<active_games, sio_rooms>>

NextViews == GetStateForClient \/ BroadcastGameState

SpecViews == InitViews /\ [][NextViews]_vars

\* ------------------------------------------------------------- properties
\* No room is ever created: the first join_game raises at line 206 with the
\* registry empty, and nothing else inserts into active_games.
RegistryStaysEmpty == active_games = <<>>

\* The step handles one inbound event of kind ev.
Handled(ev) == Len(history') = Len(history) + 1 /\ Last(history').event = ev

\* C4: starting from an empty registry, two consecutive join_game requests
\* from two distinct connections, named Alice then Bob, leave exactly one
\* room whose roster holds both connections, with status PLAYING, 4 cards
\* in each of the two hands, 46 cards in the draw pile and a current-turn
\* identity that is one of the two connections.
C4_TwoJoinsStartGame ==
    \A a, b \in Conns :
        (a # b /\ history = <<Req("join_game", a, "Alice", None),
                              Req("join_game", b, "Bob", None)>>)
        => /\ Len(active_games) = 1
           /\ PlayerSids(active_games[1]) = {a, b}
           /\ Len(active_games[1].players) = 2
           /\ active_games[1].status = "PLAYING"
           /\ \A p \in DOMAIN active_games[1].players :
                  Len(active_games[1].players[p].hand) = HandSize
           /\ Len(active_games[1].deck.cards) = NumCards - 2 * HandSize
           /\ get_player_sid(active_games[1]) \in {a, b}

\* C5: a join_game request that finds no room below capacity (the empty
\* registry included) creates exactly one new room, under an identifier no
\* existing room uses, with the requester as its only player; one that
\* finds a room below capacity adds one player to such a room and creates
\* no room.
C5_JoinFindsOrCreatesRoom ==
    [][Handled("join_game") =>
        IF \A i \in DOMAIN active_games : is_full(active_games[i])
          THEN /\ Len(active_games') = Len(active_games) + 1
               /\ \A i \in DOMAIN active_games : active_games'[i] = active_games[i]
               /\ Last(active_games').room_id \notin RoomIds(active_games)
               /\ Len(Last(active_games').players) = 1
          ELSE /\ RoomIds(active_games') = RoomIds(active_games)
               /\ Len(active_games') = Len(active_games)
               /\ \E i \in DOMAIN active_games :
                      /\ ~is_full(active_games[i])
                      /\ Len(active_games'[i].players) = Len(active_games[i].players) + 1
                      /\ \A j \in DOMAIN active_games \ {i} :
                             active_games'[j].players = active_games[j].players
      ]_vars

\* The caller of a turn event is the active player of a PLAYING room.
IsActivePlayer(ag, c) ==
    \E i \in DOMAIN ag : /\ c \in PlayerSids(ag[i])
                         /\ ag[i].status = "PLAYING"
                         /\ ag[i].turn_order # <<>>
                         /\ ~get_player_sid_raises(ag[i])
                         /\ get_player_sid(ag[i]) = c

DrawnOutstanding(ag, c) ==
    \E i \in DOMAIN ag : c \in PlayerSids(ag[i]) /\ ag[i].drawn_card # NoCard

\* The cases in which a draw_card, replace_card or discard_drawn_card
\* request is to be rejected.
MustReject(ag, req) ==
    \/ ~IsActivePlayer(ag, req.conn)
    \/ req.event = "draw_card" /\ DrawnOutstanding(ag, req.conn)
    \/ req.event \in {"replace_card", "discard_drawn_card"}
         /\ ~DrawnOutstanding(ag, req.conn)
    \/ req.event = "replace_card"
         /\ (req.position = None \/ req.position \notin 0 .. HandSize - 1)

\* C8: a draw_card, replace_card or discard_drawn_card request that is to
\* be rejected leaves every room unchanged and produces exactly one error,
\* delivered to the caller, and no broadcast to the room.
C8_RejectionOnlyErrorsCaller ==
    [][(/\ Len(history') = Len(history) + 1
        /\ Last(history').event \in {"draw_card", "replace_card", "discard_drawn_card"}
        /\ MustReject(active_games, Last(history')))
       => /\ active_games' = active_games
          /\ emitted' = <<Emit("error", Last(history').conn, None)>>
      ]_vars

\* The state for viewer v has just been computed for the room.
Projected(v) ==
    /\ history = <<Req("get_state_for_client", v, "None", None)>>
    /\ raised = "none"

\* The positions <<p, k>> of the face-down cards in the hands of the
\* players other than v.
HiddenFrom(game, v) ==
    {pk \in (DOMAIN game.players) \X (1 .. HandSize) :
        /\ pk[2] \in DOMAIN game.players[pk[1]].hand
        /\ game.players[pk[1]].sid # v
        /\ game.players[pk[1]].hand[pk[2]] \notin game.face_up}

\* The cards the room holds anywhere.
CardsOf(game) ==
    HandCards(game) \cup Range(game.deck.cards) \cup Range(game.deck.discard_pile)
        \cup {game.drawn_card} \cup game.face_up

\* C12: the state computed for viewer V hides rank, suit and display name
\* of every face-down card in another player's hand, shows the true rank and
\* suit of every card in V's own hand whatever its flag, and is the same for
\* a room that differs only in which card lies face-down in a position of
\* another player's hand.
C12_MaskingHidesOthersFaceDown ==
    \A v \in Conns :
        Projected(v) =>
            LET g  == active_games[1]
                st == emitted[1].state
            IN  /\ \A p \in DOMAIN g.players, k \in 1 .. HandSize :
                       k \in DOMAIN g.players[p].hand =>
                           LET n     == g.players[p].hand[k]
                               shown == st.players[p].hand[k]
                           IN  /\ (g.players[p].sid # v /\ n \notin g.face_up)
                                    => /\ shown.rank = "HIDDEN"
                                       /\ shown.suit = "HIDDEN"
                                       /\ shown.display_name = "??"
                               /\ g.players[p].sid = v
                                    => /\ shown.rank = Card_rank(n)
                                       /\ shown.suit = Card_suit(n)
                /\ \A pk \in HiddenFrom(g, v), x \in AllCards \ CardsOf(g) :
                       get_state_for_client(
                           [g EXCEPT !.players[pk[1]].hand[pk[2]] = x], v) = st

\* A state was computed for a viewer who holds a face-down card and whose
\* opponent holds a face-down and a face-up card.
C12_Witness ==
    \E v \in Conns :
        /\ Projected(v)
        /\ HiddenFrom(active_games[1], v) # {}
        /\ \E p \in DOMAIN active_games[1].players :
               /\ active_games[1].players[p].sid = v
               /\ \E k \in DOMAIN active_games[1].players[p].hand :
                      active_games[1].players[p].hand[k] \notin active_games[1].face_up
        /\ \E p \in DOMAIN active_games[1].players :
               /\ active_games[1].players[p].sid # v
               /\ \E k \in DOMAIN active_games[1].players[p].hand :
                      active_games[1].players[p].hand[k] \in active_games[1].face_up

====
